---- MODULE Spec2Model ----
(***************************************************************************)
(* Verification model of izunga/Search-Engine-Project.                     *)
(*                                                                         *)
(* Strings are sequences of one-character strings, so that the code's      *)
(* character-level operations (operator<, tolower, suffix tests) are       *)
(* computed rather than assumed.  A tree node is a record                  *)
(* [key, value, height, left, right]; the null pointer is Nil.             *)
(***************************************************************************)
EXTENDS Integers, Sequences, FiniteSets, TLC

VARIABLES
    avlTree,    \* SpecAVL: root of one AVLTree
    avlModel,   \* SpecAVL: ghost, key -> value of the most recent insert(key, value)
    avlLast,    \* SpecAVL: ghost, the last public insert call
    ioTree,     \* SpecIO: root of the AVLTree that is saved
    ioFile,     \* SpecIO: the file on disk, [exists, data]
    ioFileState,\* SpecIO: ghost, "absent" | "saved" | "truncated" | "removed"
    ioTarget,   \* SpecIO: root of the AVLTree that loadFromFile was called on
    ioOutcome,  \* SpecIO: "none" | "returned" | "threw", how loadFromFile ended,
                \*         with fresh = whether the loading tree was empty
    folder,     \* the documents under folderPath: file path -> document
    datFiles,   \* the index files on disk, [org, name, word]
    badFiles,   \* ghost: the index files that were absent or truncated at the start
    wordMap,    \* the WordMap of the engine
    calls,      \* ghost: the WordMap / engine calls the constructor made, in order
    loadResult, \* ghost: what WordMap::load returned and the WordMap it left
    reloaded,   \* SpecBuild: the WordMap of a second engine constructed on the saved files
    phase,      \* position of the scenario
    assocLast,  \* SpecAssoc: ghost, the last associate call and the number of calls
    textCall,   \* SpecText: the word given to the TextProcessor and what it returned
    parseCall,  \* SpecParse: the query given to parse and the term set it returned
    searchCall, \* SpecSearch: the query given to search and the list it returned
    argv,       \* SpecMain: the command line, argv[1] = the program name
    pc,         \* SpecMain: position of main
    engine,     \* SpecMain: the unique_ptr<SearchEngine> of the menu, "null" when empty
    trace       \* SpecMain: ghost, what main did so far, in order

avlVars == <<avlTree, avlModel, avlLast>>
ioVars == <<ioTree, ioFile, ioFileState, ioTarget, ioOutcome>>

engVars == <<folder, datFiles, badFiles, wordMap, calls, loadResult, reloaded, phase, assocLast>>

fnVars == <<textCall, parseCall, searchCall>>

mainVars == <<argv, pc, engine, trace>>

vars == <<avlVars, ioVars, engVars, fnVars, mainVars>>

----------------------------------------------------------------------------
(* Bounds *)

NumKeys == 5        \* keys of KeyPool used as insert keys
MaxIOEntries == 2   \* SpecIO: entries of the index that is saved
MaxGarbage == 1     \* largest small value an indeterminate size_t is given
MaxTextLen == 2     \* body words of a document
MaxAssoc == 4       \* SpecAssoc: associate calls in a run
MaxSuffixes == 2    \* SpecText: suffixes appended to a root word
MaxSearchLen == 3   \* SpecSearch: body words of a document
MaxTrace == 4       \* SpecMain: events of a run before the menu only lets the user exit
MaxTokens == 2      \* SpecParse: tokens of a query
MaxRepeat == 2      \* SpecParse: repetitions of a token appended to the query

----------------------------------------------------------------------------
(* Characters and std::string comparison *)

Lower == <<"a","b","c","d","e","f","g","h","i","j","k","l","m",
           "n","o","p","q","r","s","t","u","v","w","x","y","z">>
Upper == <<"A","B","C","D","E","F","G","H","I","J","K","L","M",
           "N","O","P","Q","R","S","T","U","V","W","X","Y","Z">>

IsLower(c) == \E i \in 1..Len(Lower) : Lower[i] = c
IsUpper(c) == \E i \in 1..Len(Upper) : Upper[i] = c

\* the character's code (ASCII), which std::string's operator< compares
CharCode(c) ==
    IF IsLower(c) THEN 96 + (CHOOSE i \in 1..Len(Lower) : Lower[i] = c)
    ELSE IF IsUpper(c) THEN 64 + (CHOOSE i \in 1..Len(Upper) : Upper[i] = c)
    ELSE IF c = "-" THEN 45
    ELSE IF c = ":" THEN 58
    ELSE IF c = " " THEN 32
    ELSE 0

\* std::string operator< : lexicographic over the character codes
RECURSIVE StrLess(_, _)
StrLess(a, b) ==
    IF b = <<>> THEN FALSE
    ELSE IF a = <<>> THEN TRUE
    ELSE IF CharCode(a[1]) < CharCode(b[1]) THEN TRUE
    ELSE IF CharCode(a[1]) > CharCode(b[1]) THEN FALSE
    ELSE StrLess(Tail(a), Tail(b))

Max(a, b) == IF a >= b THEN a ELSE b

----------------------------------------------------------------------------
(* Inputs *)

\* the document ids (file paths)
DocPool == << <<"d","a">>, <<"d","b">> >>
Docs == {DocPool[1], DocPool[2]}

KeyPool == << <<"b">>, <<"a","b">>, <<>>, <<"c">>, <<"B">>, <<"a">>,
              <<"b","a">>, <<"c","a">> >>
Keys == {KeyPool[i] : i \in 1..NumKeys}

\* the empty std::unordered_map<std::string, int>
EmptyMap == [d \in {} |-> 0]

AVLValues == {EmptyMap, [d \in {DocPool[1]} |-> 1]}

----------------------------------------------------------------------------
(* AVLNode / AVLTree *)

Nil == <<>>

AVLNode(k, v) == [key |-> k, value |-> v, height |-> 1, left |-> Nil, right |-> Nil]

height(node) == IF node = Nil THEN 0 ELSE node.height

getBalance(node) == IF node = Nil THEN 0 ELSE height(node.left) - height(node.right)

rightRotate(y) ==
    LET x  == y.left
        T2 == x.right
        y1 == [y EXCEPT !.left = T2]
        y2 == [y1 EXCEPT !.height = Max(height(y1.left), height(y1.right)) + 1]
        x1 == [x EXCEPT !.right = y2]
    IN  [x1 EXCEPT !.height = Max(height(x1.left), height(x1.right)) + 1]

\* a plausible slip: the rotation leaves the two height fields as they were
leftRotate_staleHeights(x) ==
    LET y  == x.right
        T2 == y.left
        x1 == [x EXCEPT !.right = T2]
    IN  [y EXCEPT !.left = x1]

leftRotate(x) ==
    LET y  == x.right
        T2 == y.left
        x1 == [x EXCEPT !.right = T2]
        x2 == [x1 EXCEPT !.height = Max(height(x1.left), height(x1.right)) + 1]
        y1 == [y EXCEPT !.left = x2]
    IN  [y1 EXCEPT !.height = Max(height(y1.left), height(y1.right)) + 1]

\* a plausible slip: the two double-rotation cases are forgotten
rebalance_noDouble(n, key) ==
    LET node    == [n EXCEPT !.height = 1 + Max(height(n.left), height(n.right))]
        balance == getBalance(node)
    IN  IF balance > 1 /\ StrLess(key, node.left.key) THEN rightRotate(node)
        ELSE IF balance < -1 /\ StrLess(node.right.key, key) THEN leftRotate(node)
        ELSE node

\* the part of insert after the recursive call: height update and the four
\* rotation cases
rebalance(n, key) ==
    LET node    == [n EXCEPT !.height = 1 + Max(height(n.left), height(n.right))]
        balance == getBalance(node)
    IN  IF balance > 1 /\ StrLess(key, node.left.key) THEN rightRotate(node)
        ELSE IF balance < -1 /\ StrLess(node.right.key, key) THEN leftRotate(node)
        ELSE IF balance > 1 /\ StrLess(node.left.key, key)
            THEN rightRotate([node EXCEPT !.left = leftRotate(node.left)])
        ELSE IF balance < -1 /\ StrLess(key, node.right.key)
            THEN leftRotate([node EXCEPT !.right = rightRotate(node.right)])
        ELSE node

\* a plausible slip: no case for an equal key, which then descends right
insert_noEqualCase(node, key, value) ==
    LET RECURSIVE ins(_)
        ins(n) ==
            IF n = Nil THEN AVLNode(key, value)
            ELSE IF StrLess(key, n.key)
                THEN rebalance([n EXCEPT !.left = ins(n.left)], key)
            ELSE rebalance([n EXCEPT !.right = ins(n.right)], key)
    IN  ins(node)

RECURSIVE insert(_, _, _)
insert(node, key, value) ==
    IF node = Nil THEN AVLNode(key, value)
    ELSE IF StrLess(key, node.key)
        THEN rebalance([node EXCEPT !.left = insert(node.left, key, value)], key)
    ELSE IF StrLess(node.key, key)
        THEN rebalance([node EXCEPT !.right = insert(node.right, key, value)], key)
    ELSE [node EXCEPT !.value = value]

\* a plausible slip: the descent goes right whenever the key differs
find_alwaysRight(node, key) ==
    IF node = Nil \/ node.key = key THEN node
    ELSE LET RECURSIVE walk(_)
             walk(n) == IF n = Nil \/ n.key = key THEN n ELSE walk(n.right)
         IN  walk(node.right)

RECURSIVE find(_, _)
find(node, key) ==
    IF node = Nil \/ node.key = key THEN node
    ELSE IF StrLess(key, node.key) THEN find(node.left, key)
    ELSE find(node.right, key)

----------------------------------------------------------------------------
(* Measures of a tree, used to state properties *)

RECURSIVE TrueHeight(_)
TrueHeight(node) ==
    IF node = Nil THEN 0
    ELSE 1 + Max(TrueHeight(node.left), TrueHeight(node.right))

RECURSIVE Size(_)
Size(node) == IF node = Nil THEN 0 ELSE 1 + Size(node.left) + Size(node.right)

RECURSIVE KeysOf(_)
KeysOf(node) ==
    IF node = Nil THEN {}
    ELSE {node.key} \cup KeysOf(node.left) \cup KeysOf(node.right)

\* keys of the nodes that have at least one child
RECURSIVE InnerKeys(_)
InnerKeys(node) ==
    IF node = Nil THEN {}
    ELSE (IF node.left # Nil \/ node.right # Nil THEN {node.key} ELSE {})
         \cup InnerKeys(node.left) \cup InnerKeys(node.right)

\* every key of the left subtree is smaller and every key of the right
\* subtree is larger than the node's key, at every node
RECURSIVE IsSearchTree(_)
IsSearchTree(node) ==
    \/ node = Nil
    \/ /\ \A k \in KeysOf(node.left) : StrLess(k, node.key)
       /\ \A k \in KeysOf(node.right) : StrLess(node.key, k)
       /\ IsSearchTree(node.left)
       /\ IsSearchTree(node.right)

\* the height field of every node is the true height of its subtree
RECURSIVE HeightsExact(_)
HeightsExact(node) ==
    \/ node = Nil
    \/ /\ node.height = 1 + Max(TrueHeight(node.left), TrueHeight(node.right))
       /\ HeightsExact(node.left)
       /\ HeightsExact(node.right)

RECURSIVE IsBalanced(_)
IsBalanced(node) ==
    \/ node = Nil
    \/ /\ TrueHeight(node.left) - TrueHeight(node.right) \in {-1, 0, 1}
       /\ IsBalanced(node.left)
       /\ IsBalanced(node.right)

----------------------------------------------------------------------------
(* States of the variables of a specification that is not running *)

NoCall == [key |-> <<>>, existed |-> FALSE, called |-> FALSE]

AVL_Idle ==
    /\ avlTree = Nil
    /\ avlModel = [k \in {} |-> EmptyMap]
    /\ avlLast = NoCall

NoFile == [exists |-> FALSE, data |-> <<>>]

IO_Idle ==
    /\ ioTree = Nil
    /\ ioFile = NoFile
    /\ ioFileState = "absent"
    /\ ioTarget = Nil
    /\ ioOutcome = [how |-> "none", fresh |-> FALSE]

NoLoad ==
    [returned |-> "none", wm |-> [orgIndex |-> Nil, nameIndex |-> Nil, wordIndex |-> Nil]]

NoAssoc == [op |-> "none", term |-> <<>>, doc |-> <<>>, n |-> 0]

ENG_Idle ==
    /\ folder = [f \in {} |-> <<>>]
    /\ datFiles = [org |-> NoFile, name |-> NoFile, word |-> NoFile]
    /\ badFiles = {}
    /\ wordMap = [orgIndex |-> Nil, nameIndex |-> Nil, wordIndex |-> Nil]
    /\ calls = <<>>
    /\ loadResult = NoLoad
    /\ reloaded = [orgIndex |-> Nil, nameIndex |-> Nil, wordIndex |-> Nil]
    /\ phase = "idle"
    /\ assocLast = NoAssoc

NoText == [word |-> <<>>, op |-> "none", out |-> <<>>, again |-> <<>>]

NoParse == [tokens |-> <<>>, extra |-> <<>>, runs |-> 0, terms |-> {}, more |-> {}]

NoSearch == [query |-> <<>>, called |-> FALSE, result |-> <<>>]

FN_Idle ==
    /\ textCall = NoText
    /\ parseCall = NoParse
    /\ searchCall = NoSearch

MAIN_Idle ==
    /\ argv = <<>>
    /\ pc = "idle"
    /\ engine = "null"
    /\ trace = <<>>

----------------------------------------------------------------------------
(* Binary persistence: saveMap / loadMap and the tree's save / load.       *)
(*                                                                         *)
(* A file is [exists, data]; data is the sequence of the fields written,   *)
(* each [t |-> "size_t" | "bytes" | "int", v |-> value].  A write of zero  *)
(* bytes leaves no field.  A stream is [data, pos, good]; a read that      *)
(* fails sets good to FALSE and leaves its buffer untouched, so a buffer   *)
(* that was never initialised holds an indeterminate value afterwards.     *)
(***************************************************************************)

NUL == "NUL"

\* stands for any size_t above std::string::max_size()
TooLong == 0 - 1

\* values an indeterminate size_t / int is given
GarbageCount == 0..MaxGarbage
GarbageLength == (0..MaxGarbage) \cup {TooLong}
GarbageInt == {0 - 1, 1}

\* the orders in which a range-for may visit an unordered container
Orders(S) ==
    {f \in [1..Cardinality(S) -> S] : \A i, j \in 1..Cardinality(S) : i # j => f[i] # f[j]}

RECURSIVE saveEntries(_, _)
saveEntries(map, order) ==
    IF order = <<>> THEN <<>>
    ELSE LET key == order[1]
         IN  <<[t |-> "size_t", v |-> Len(key)]>>
             \o (IF Len(key) > 0 THEN <<[t |-> "bytes", v |-> key]>> ELSE <<>>)
             \o <<[t |-> "int", v |-> map[key]]>>
             \o saveEntries(map, Tail(order))

saveMap(map, order) ==
    <<[t |-> "size_t", v |-> Cardinality(DOMAIN map)]>> \o saveEntries(map, order)

ofstream == [exists |-> TRUE, data |-> <<>>]

ifstream(file) == [data |-> file.data, pos |-> 1, good |-> file.exists]

\* in.read into a size_t / int / key buffer: the set of <<value, stream>>
readField(in, kind, garbage) ==
    IF in.good /\ in.pos <= Len(in.data) /\ in.data[in.pos].t = kind
    THEN {<<in.data[in.pos].v, [in EXCEPT !.pos = @ + 1]>>}
    ELSE {<<g, [in EXCEPT !.good = FALSE]>> : g \in garbage}

readKey(in, keyLength) ==
    IF keyLength = 0 THEN {<<<<>>, in>>}
    ELSE readField(in, "bytes", {[i \in 1..keyLength |-> NUL]})

put(map, key, value) ==
    [k \in DOMAIN map \cup {key} |-> IF k = key THEN value ELSE map[k]]

\* the loop of loadMap, n iterations left: the set of [threw, map]
RECURSIVE loadEntries(_, _, _)
loadEntries(map, in, n) ==
    IF n = 0 THEN {[threw |-> FALSE, map |-> map]}
    ELSE UNION {
        IF r1[1] = TooLong
        THEN {[threw |-> TRUE, map |-> map]}   \* std::string(keyLength, '\0') throws
        ELSE UNION { UNION { loadEntries(put(map, r2[1], r3[1]), r3[2], n - 1)
                             : r3 \in readField(r2[2], "int", GarbageInt) }
                     : r2 \in readKey(r1[2], r1[1]) }
        : r1 \in readField(in, "size_t", GarbageLength) }

loadMap(map, in) ==
    UNION { loadEntries(EmptyMap, r[2], r[1]) : r \in readField(in, "size_t", GarbageCount) }

AVLNode_save(node, order) == saveMap(node.value, order)

AVLNode_load(node, in) ==
    {[threw |-> o.threw, root |-> [node EXCEPT !.value = o.map]] : o \in loadMap(node.value, in)}

AVLTree_save(root, order) == IF root # Nil THEN AVLNode_save(root, order) ELSE <<>>

AVLTree_load(root, in) ==
    IF root # Nil THEN AVLNode_load(root, in) ELSE {[threw |-> FALSE, root |-> root]}

saveToFile(root, order) == [ofstream EXCEPT !.data = AVLTree_save(root, order)]

loadFromFile(root, file) == AVLTree_load(root, ifstream(file))

\* the orders in which saveMap may visit the root's posting map
SaveOrders(root) == IF root = Nil THEN {<<>>} ELSE Orders(DOMAIN root.value)

\* what a caller of find sees: absence, or the posting map found
Lookup(root, key) ==
    IF find(root, key) = Nil THEN [found |-> FALSE, value |-> EmptyMap]
    ELSE [found |-> TRUE, value |-> find(root, key).value]

----------------------------------------------------------------------------
(* TextProcessor *)

tolower(c) == IF IsUpper(c) THEN Lower[CHOOSE i \in 1..Len(Upper) : Upper[i] = c] ELSE c

ToLowerStr(str) == [i \in 1..Len(str) |-> tolower(str[i])]

\* str.substr(0, n)
Prefix(str, n) == SubSeq(str, 1, n)

endsWith(str, suffix) ==
    /\ Len(str) >= Len(suffix)
    /\ SubSeq(str, Len(str) - Len(suffix) + 1, Len(str)) = suffix

\* position i counts from 1 here, from 0 in the code
RECURSIVE isConsonant(_, _)
isConsonant(str, i) ==
    LET c == str[i]
    IN  IF c \in {"a", "e", "i", "o", "u"} THEN FALSE
        ELSE IF c = "y" THEN (IF i = 1 THEN TRUE ELSE ~isConsonant(str, i - 1))
        ELSE TRUE

\* the loop of measureConsecutiveVC from position i on: <<m, prevC>> is the
\* state of the loop
RECURSIVE measureFrom(_, _, _, _)
measureFrom(str, i, m, prevC) ==
    IF i > Len(str) THEN m
    ELSE LET isC == isConsonant(str, i)
         IN  measureFrom(str, i + 1, IF prevC /\ ~isC THEN m + 1 ELSE m, isC)

measureConsecutiveVC(str) == measureFrom(str, 1, 0, TRUE)

hasVowel(str) == \E i \in 1..Len(str) : ~isConsonant(str, i)

endsWithDoubleConsonant(str) ==
    /\ Len(str) >= 2
    /\ str[Len(str)] = str[Len(str) - 1]
    /\ isConsonant(str, Len(str))

endsWithCVC(str) ==
    /\ Len(str) >= 3
    /\ LET j == Len(str)
       IN  /\ isConsonant(str, j)
           /\ ~isConsonant(str, j - 1)
           /\ isConsonant(str, j - 2)
           /\ str[j] \notin {"w", "x", "y"}

replaceSuffix(str, suffix, replacement) ==
    IF endsWith(str, suffix)
    THEN Prefix(str, Len(str) - Len(suffix)) \o replacement
    ELSE str

pop_back(str) == Prefix(str, Len(str) - 1)

step1a(str) ==
    IF endsWith(str, <<"s","s","e","s">>) THEN replaceSuffix(str, <<"s","s","e","s">>, <<"s","s">>)
    ELSE IF endsWith(str, <<"i","e","s">>) THEN replaceSuffix(str, <<"i","e","s">>, <<"i">>)
    ELSE IF endsWith(str, <<"s","s">>) THEN str
    ELSE IF endsWith(str, <<"s">>) THEN pop_back(str)
    ELSE str

\* the fix-up of step1b after "ed" or "ing" was removed
step1bFixup(str) ==
    IF endsWith(str, <<"a","t">>) \/ endsWith(str, <<"b","l">>) \/ endsWith(str, <<"i","z">>)
    THEN str \o <<"e">>
    ELSE IF /\ endsWithDoubleConsonant(str)
            /\ ~endsWith(str, <<"l">>) /\ ~endsWith(str, <<"s">>) /\ ~endsWith(str, <<"z">>)
    THEN pop_back(str)
    ELSE IF measureConsecutiveVC(str) = 1 /\ endsWithCVC(str)
    THEN str \o <<"e">>
    ELSE str

\* step1b with the special cases applied whether or not a suffix was removed
step1b_fixupAlways(str) ==
    IF endsWith(str, <<"e","e","d">>)
    THEN IF measureConsecutiveVC(Prefix(str, Len(str) - 3)) > 0
         THEN replaceSuffix(str, <<"e","e","d">>, <<"e","e">>)
         ELSE str
    ELSE IF \/ endsWith(str, <<"e","d">>) /\ hasVowel(Prefix(str, Len(str) - 2))
            \/ endsWith(str, <<"i","n","g">>) /\ hasVowel(Prefix(str, Len(str) - 3))
    THEN IF endsWith(str, <<"e","d">>)
         THEN step1bFixup(replaceSuffix(str, <<"e","d">>, <<>>))
         ELSE step1bFixup(replaceSuffix(str, <<"i","n","g">>, <<>>))
    ELSE step1bFixup(str)

step1b(str) ==
    IF endsWith(str, <<"e","e","d">>)
    THEN IF measureConsecutiveVC(Prefix(str, Len(str) - 3)) > 0
         THEN replaceSuffix(str, <<"e","e","d">>, <<"e","e">>)
         ELSE str
    ELSE IF \/ endsWith(str, <<"e","d">>) /\ hasVowel(Prefix(str, Len(str) - 2))
            \/ endsWith(str, <<"i","n","g">>) /\ hasVowel(Prefix(str, Len(str) - 3))
    THEN IF endsWith(str, <<"e","d">>)
         THEN step1bFixup(replaceSuffix(str, <<"e","d">>, <<>>))
         ELSE step1bFixup(replaceSuffix(str, <<"i","n","g">>, <<>>))
    ELSE str

step1c(str) ==
    IF endsWith(str, <<"y">>) /\ hasVowel(Prefix(str, Len(str) - 1))
    THEN [str EXCEPT ![Len(str)] = "i"]
    ELSE str

\* the stopwords the constructor inserts
stopwords ==
    { <<"a">>, <<"a","b","o","u","t">>, <<"a","b","o","v","e">>, <<"a","f","t","e","r">>,
      <<"a","g","a","i","n">>, <<"a","g","a","i","n","s","t">>, <<"a","l","l">>,
      <<"a","m">>, <<"a","n">>, <<"a","n","d">> }

isStopword(word) == word \in stopwords

stem(word) ==
    IF Len(word) <= 2 THEN word
    ELSE step1c(step1b(step1a(ToLowerStr(word))))

processWord(word) == IF isStopword(word) THEN <<>> ELSE stem(word)

----------------------------------------------------------------------------
(* SearchEngine::WordMap *)

\* a WordMap as constructed: three empty trees
WordMap == [orgIndex |-> Nil, nameIndex |-> Nil, wordIndex |-> Nil]

\* a plausible slip: the count is set, not incremented
increment_setOne(files, filepath) == put(files, filepath, 1)

\* files[filepath]++
increment(files, filepath) ==
    put(files, filepath, (IF filepath \in DOMAIN files THEN files[filepath] ELSE 0) + 1)

\* index.find(key, files): copies the posting map out when the key is found
findInto(root, key, files) ==
    IF find(root, key) # Nil
    THEN [found |-> TRUE, files |-> find(root, key).value]
    ELSE [found |-> FALSE, files |-> files]

associateOrg(wm, org, filepath) ==
    LET r     == findInto(wm.orgIndex, org, EmptyMap)
        files == IF ~r.found THEN EmptyMap ELSE r.files
    IN  [wm EXCEPT !.orgIndex = insert(wm.orgIndex, org, increment(files, filepath))]

\* a plausible slip: associateName copied from associateOrg with the index
\* it writes left as orgIndex
associateName_orgIndex(wm, name, filepath) ==
    LET r     == findInto(wm.nameIndex, name, EmptyMap)
        files == IF ~r.found THEN EmptyMap ELSE r.files
    IN  [wm EXCEPT !.orgIndex = insert(wm.orgIndex, name, increment(files, filepath))]

associateName(wm, name, filepath) ==
    LET r     == findInto(wm.nameIndex, name, EmptyMap)
        files == IF ~r.found THEN EmptyMap ELSE r.files
    IN  [wm EXCEPT !.nameIndex = insert(wm.nameIndex, name, increment(files, filepath))]

\* associateWord without the test for an empty word
associateWord_noEmptyTest(wm, word, filepath) ==
    LET r     == findInto(wm.wordIndex, word, EmptyMap)
        files == IF ~r.found THEN EmptyMap ELSE r.files
    IN  [wm EXCEPT !.wordIndex = insert(wm.wordIndex, word, increment(files, filepath))]

associateWord(wm, word, filepath) ==
    IF word = <<>> THEN wm
    ELSE LET r     == findInto(wm.wordIndex, word, EmptyMap)
             files == IF ~r.found THEN EmptyMap ELSE r.files
         IN  [wm EXCEPT !.wordIndex = insert(wm.wordIndex, word, increment(files, filepath))]

getFilesByOrg(wm, org) == findInto(wm.orgIndex, org, EmptyMap).files
getFilesByName(wm, name) == findInto(wm.nameIndex, name, EmptyMap).files
getFilesByWord(wm, word) == findInto(wm.wordIndex, word, EmptyMap).files

\* index.load(path) and index.save(path) are the tree's loadFromFile and
\* saveToFile.  disk is [org, name, word]: the files at osavePath, nsavePath
\* and wsavePath; filenamepath and fsavePath are never opened.
\* The result is the set of [ok, wm]: an exception thrown by a load leaves
\* what that load and the earlier ones wrote.
WordMap_load(wm, disk) ==
    UNION { IF o.threw THEN {[ok |-> FALSE, wm |-> [wm EXCEPT !.orgIndex = o.root]]}
            ELSE UNION { IF n.threw
                         THEN {[ok |-> FALSE,
                                wm |-> [wm EXCEPT !.orgIndex = o.root, !.nameIndex = n.root]]}
                         ELSE {[ok |-> ~w.threw,
                                wm |-> [orgIndex |-> o.root, nameIndex |-> n.root,
                                        wordIndex |-> w.root]]
                               : w \in loadFromFile(wm.wordIndex, disk.word)}
                         : n \in loadFromFile(wm.nameIndex, disk.name) }
            : o \in loadFromFile(wm.orgIndex, disk.org) }

\* the set of disks a save may leave (the order of saveMap's loop is open)
WordMap_save(wm, disk) ==
    { [org |-> saveToFile(wm.orgIndex, o), name |-> saveToFile(wm.nameIndex, n),
       word |-> saveToFile(wm.wordIndex, w)]
      : o \in SaveOrders(wm.orgIndex), n \in SaveOrders(wm.nameIndex),
        w \in SaveOrders(wm.wordIndex) }

----------------------------------------------------------------------------
(* SearchEngine: construction and buildFromScratch *)

ToSet(seq) == {seq[i] : i \in 1..Len(seq)}

\* A document is [orgs, persons, text]: the organization names, the person
\* names and the body words of the file, in the order they occur.  The
\* declared result is three unordered sets of strings.
getRelevantData(doc) == <<ToSet(doc.orgs), ToSet(doc.persons), ToSet(doc.text)>>

\* the three range-for loops over the sets, in every order a set may be
\* visited in: each gives the set of resulting WordMaps
RECURSIVE indexOrgs(_, _, _)
indexOrgs(wm, words, filePath) ==
    IF words = {} THEN {wm}
    ELSE UNION { indexOrgs(associateOrg(wm, ToLowerStr(word), filePath), words \ {word}, filePath)
                 : word \in words }

RECURSIVE indexNames(_, _, _)
indexNames(wm, words, filePath) ==
    IF words = {} THEN {wm}
    ELSE UNION { indexNames(associateName(wm, ToLowerStr(word), filePath), words \ {word}, filePath)
                 : word \in words }

RECURSIVE indexWords(_, _, _)
indexWords(wm, words, filePath) ==
    IF words = {} THEN {wm}
    ELSE UNION { indexWords(IF processWord(word) # <<>>
                            THEN associateWord(wm, processWord(word), filePath)
                            ELSE wm,
                            words \ {word}, filePath)
                 : word \in words }

\* the body of the directory loop for one regular file
indexFile(wm, filePath, doc) ==
    LET words == getRelevantData(doc)
    IN  UNION { UNION { indexWords(w2, words[3], filePath)
                        : w2 \in indexNames(w1, words[2], filePath) }
                : w1 \in indexOrgs(wm, words[1], filePath) }

\* the directory loop over the files not yet visited, in any order
RECURSIVE indexFiles(_, _, _)
indexFiles(wm, corpus, files) ==
    IF files = {} THEN {wm}
    ELSE UNION { UNION { indexFiles(w, corpus, files \ {f}) : w \in indexFile(wm, f, corpus[f]) }
                 : f \in files }

\* corpus maps each regular file under folderPath to its document
buildFromScratch(wm, corpus) == indexFiles(wm, corpus, DOMAIN corpus)

\* the constructor: the set of [wm, disk, calls, loaded] it may end in, where
\* loaded is the outcome [ok, wm] of WordMap::load
SearchEngine(corpus, disk) ==
    UNION { IF ~l.ok
            THEN UNION { { [wm |-> b, disk |-> d, loaded |-> l,
                            calls |-> <<"load", "buildFromScratch", "save">>]
                           : d \in WordMap_save(b, disk) }
                         : b \in buildFromScratch(l.wm, corpus) }
            ELSE { [wm |-> l.wm, disk |-> disk, loaded |-> l, calls |-> <<"load">>] }
            : l \in WordMap_load(WordMap, disk) }

----------------------------------------------------------------------------
(* SearchEngine::parse and search *)

startsWith(str, prefix) == Len(str) >= Len(prefix) /\ SubSeq(str, 1, Len(prefix)) = prefix

OrgPrefix == <<"o","r","g",":">>
PersonPrefix == <<"p","e","r","s","o","n",":">>

\* while (iss >> term): the whitespace-separated tokens of the text; cur is
\* the token being read
RECURSIVE tokens(_, _)
tokens(str, cur) ==
    IF str = <<>> THEN (IF cur = <<>> THEN <<>> ELSE <<cur>>)
    ELSE IF str[1] = " "
         THEN (IF cur = <<>> THEN <<>> ELSE <<cur>>) \o tokens(Tail(str), <<>>)
         ELSE tokens(Tail(str), Append(cur, str[1]))

\* parseTerm storing a negated term without its "-"
parseTerm_negationDropped(token) ==
    LET term == ToLowerStr(token)
    IN  IF startsWith(term, OrgPrefix) \/ startsWith(term, PersonPrefix) THEN {term}
        ELSE IF term[1] = "-"
        THEN LET processedTerm == processWord(Tail(term))
             IN  IF Len(processedTerm) > 0 THEN {processedTerm} ELSE {}
        ELSE LET processedTerm == processWord(term)
             IN  IF processedTerm # <<>> THEN {processedTerm} ELSE {}

\* parseTerm keeping a "-" that nothing follows
parseTerm_keepsBareDash(token) ==
    LET term == ToLowerStr(token)
    IN  IF startsWith(term, OrgPrefix) \/ startsWith(term, PersonPrefix) THEN {term}
        ELSE IF term[1] = "-"
        THEN LET processedTerm == <<"-">> \o processWord(Tail(term))
             IN  IF Len(processedTerm) > 0 THEN {processedTerm} ELSE {}
        ELSE LET processedTerm == processWord(term)
             IN  IF processedTerm # <<>> THEN {processedTerm} ELSE {}

\* parseTerm without the std::transform to lowercase
parseTerm_noLower(token) ==
    LET term == token
    IN  IF startsWith(term, OrgPrefix) \/ startsWith(term, PersonPrefix) THEN {term}
        ELSE IF term[1] = "-"
        THEN LET processedTerm == <<"-">> \o processWord(Tail(term))
             IN  IF Len(processedTerm) > 1 THEN {processedTerm} ELSE {}
        ELSE LET processedTerm == processWord(term)
             IN  IF processedTerm # <<>> THEN {processedTerm} ELSE {}

\* the body of parse's loop for one token: the terms it inserts
parseTerm(token) ==
    LET term == ToLowerStr(token)
    IN  IF startsWith(term, OrgPrefix) \/ startsWith(term, PersonPrefix) THEN {term}
        ELSE IF term[1] = "-"
        THEN LET processedTerm == <<"-">> \o processWord(Tail(term))
             IN  IF Len(processedTerm) > 1 THEN {processedTerm} ELSE {}
        ELSE LET processedTerm == processWord(term)
             IN  IF processedTerm # <<>> THEN {processedTerm} ELSE {}

parse(searchTerms) == UNION {parseTerm(t) : t \in ToSet(tokens(searchTerms, <<>>))}

\* search is declared in searchEngine.h and defined in no source file; it is
\* modelled after the specification's ranked retrieval.
positiveTerms(terms) == {t \in terms : t[1] # "-"}
negatedTerms(terms) == {t \in terms : t[1] = "-"}

postingOf(wm, term) ==
    IF startsWith(term, OrgPrefix) THEN getFilesByOrg(wm, SubSeq(term, 5, Len(term)))
    ELSE IF startsWith(term, PersonPrefix) THEN getFilesByName(wm, SubSeq(term, 8, Len(term)))
    ELSE getFilesByWord(wm, term)

RECURSIVE score(_, _, _)
score(wm, terms, d) ==
    IF terms = {} THEN 0
    ELSE LET t == CHOOSE x \in terms : TRUE
             m == postingOf(wm, t)
         IN  (IF d \in DOMAIN m THEN m[d] ELSE 0) + score(wm, terms \ {t}, d)

RECURSIVE ranked(_, _, _)
ranked(wm, terms, docs) ==
    IF docs = {} THEN <<>>
    ELSE LET first == CHOOSE d \in docs : \A e \in docs \ {d} :
                          \/ score(wm, terms, d) > score(wm, terms, e)
                          \/ score(wm, terms, d) = score(wm, terms, e) /\ StrLess(d, e)
         IN  <<first>> \o ranked(wm, terms, docs \ {first})

search(wm, searchTerms) ==
    LET terms      == parse(searchTerms)
        positive   == positiveTerms(terms)
        candidates == UNION {DOMAIN postingOf(wm, t) : t \in positive}
        excluded   == UNION {DOMAIN getFilesByWord(wm, Tail(t)) : t \in negatedTerms(terms)}
    IN  IF positive = {} THEN <<>>
        ELSE ranked(wm, positive, candidates \ excluded)

----------------------------------------------------------------------------
(* Inputs of the engine specifications *)

W_profit == <<"p","r","o","f","i","t">>
W_Profits == <<"P","r","o","f","i","t","s">>
W_loss == <<"l","o","s","s">>
W_a == <<"a">>
W_Acme == <<"A","c","m","e">>
W_acme == <<"a","c","m","e">>
W_bo == <<"b","o">>
W_the == <<"t","h","e">>
W_US == <<"U","S">>
W_And == <<"A","n","d">>

Vocabulary == {W_profit, W_Profits, W_loss, W_a, W_the, W_US}

Texts == UNION {[1..n -> Vocabulary] : n \in 0..MaxTextLen}

NoEntities == [orgs |-> <<>>, persons |-> <<>>]

Entities == {NoEntities, [orgs |-> <<W_Acme, W_acme>>, persons |-> <<W_bo>>]}

\* the folders whose documents take their body text from texts; only the
\* first document may name entities
Folders(texts) ==
    { [d \in Docs |-> [orgs |-> IF d = DocPool[1] THEN e.orgs ELSE <<>>,
                       persons |-> IF d = DocPool[1] THEN e.persons ELSE <<>>,
                       text |-> tx[d]]]
      : e \in Entities, tx \in [Docs -> texts] }

Corpora == Folders(Texts)

Queries ==
    { W_profit,
      W_Profits \o <<" ">> \o W_loss,
      W_profit \o <<" ", "-">> \o W_loss,
      OrgPrefix \o W_acme,
      PersonPrefix \o W_bo \o <<" ">> \o W_a,
      W_the \o <<" ">> \o W_profit }

\* the number of positions of text whose word normalizes to term
RECURSIVE Occurrences(_, _)
Occurrences(text, term) ==
    IF text = <<>> THEN 0
    ELSE (IF processWord(text[1]) = term THEN 1 ELSE 0) + Occurrences(Tail(text), term)

\* the count stored for (term, doc) in the tree of an index, 0 when absent
Count(root, term, doc) ==
    LET m == Lookup(root, term).value
    IN  IF doc \in DOMAIN m THEN m[doc] ELSE 0

----------------------------------------------------------------------------
(* SpecAssoc: any sequence of associateOrg / associateName / associateWord *)
(* calls on one WordMap.  The counts are C++ ints; MaxAssoc keeps them far *)
(* from overflow.                                                          *)

AssocTerms == {KeyPool[1], KeyPool[2], KeyPool[3]}

Assoc_Init ==
    /\ AVL_Idle
    /\ IO_Idle
    /\ FN_Idle
    /\ MAIN_Idle
    /\ folder = [f \in {} |-> <<>>]
    /\ datFiles = [org |-> NoFile, name |-> NoFile, word |-> NoFile]
    /\ badFiles = {}
    /\ wordMap = WordMap
    /\ calls = <<>>
    /\ loadResult = NoLoad
    /\ reloaded = WordMap
    /\ phase = "associate"
    /\ assocLast = NoAssoc

Assoc_Org(t, d) ==
    /\ phase = "associate" /\ assocLast.n < MaxAssoc
    /\ wordMap' = associateOrg(wordMap, t, d)
    /\ assocLast' = [op |-> "associateOrg", term |-> t, doc |-> d, n |-> assocLast.n + 1]
    /\ UNCHANGED <<folder, datFiles, badFiles, calls, loadResult, reloaded, phase, avlVars, ioVars, fnVars, mainVars>>

Assoc_Name(t, d) ==
    /\ phase = "associate" /\ assocLast.n < MaxAssoc
    /\ wordMap' = associateName(wordMap, t, d)
    /\ assocLast' = [op |-> "associateName", term |-> t, doc |-> d, n |-> assocLast.n + 1]
    /\ UNCHANGED <<folder, datFiles, badFiles, calls, loadResult, reloaded, phase, avlVars, ioVars, fnVars, mainVars>>

Assoc_Word(t, d) ==
    /\ phase = "associate" /\ assocLast.n < MaxAssoc
    /\ wordMap' = associateWord(wordMap, t, d)
    /\ assocLast' = [op |-> "associateWord", term |-> t, doc |-> d, n |-> assocLast.n + 1]
    /\ UNCHANGED <<folder, datFiles, badFiles, calls, loadResult, reloaded, phase, avlVars, ioVars, fnVars, mainVars>>

Assoc_Next ==
    \E t \in AssocTerms, d \in Docs :
        \/ Assoc_Org(t, d)
        \/ Assoc_Name(t, d)
        \/ Assoc_Word(t, d)

SpecAssoc == Assoc_Init /\ [][Assoc_Next]_vars

\* the tree of the index an associate call works on
IndexOfOp(wm, op) ==
    IF op = "associateOrg" THEN wm.orgIndex
    ELSE IF op = "associateName" THEN wm.nameIndex
    ELSE wm.wordIndex

\* C9: an associate call with a non-empty term t and document d raises the
\* count of (t, d) in its index by exactly one and leaves every other count
\* of that index as it was.
C9_Increment ==
    [][ (assocLast'.n = assocLast.n + 1 /\ assocLast'.term # <<>>) =>
        \A t \in AssocTerms, d \in Docs :
            Count(IndexOfOp(wordMap', assocLast'.op), t, d)
                = Count(IndexOfOp(wordMap, assocLast'.op), t, d)
                  + (IF t = assocLast'.term /\ d = assocLast'.doc THEN 1 ELSE 0) ]_vars

\* a call raised an existing count to two while the index holds another
\* term and another document
C9_Witness ==
    /\ assocLast.op = "associateName" /\ assocLast.term # <<>>
    /\ Count(wordMap.nameIndex, assocLast.term, assocLast.doc) = 2
    /\ \E t \in AssocTerms, d \in Docs :
           /\ t # assocLast.term /\ d # assocLast.doc
           /\ Count(wordMap.nameIndex, t, d) = 1

\* C21: after every associate call the word index has no entry whose key is
\* the empty string, and an associateWord call with an empty term leaves the
\* three indices as they were.
C21_EmptyTerm ==
    [][ /\ <<>> \notin KeysOf(wordMap'.wordIndex)
        /\ (/\ assocLast'.n = assocLast.n + 1
            /\ assocLast'.op = "associateWord"
            /\ assocLast'.term = <<>>) => wordMap' = wordMap ]_vars

\* associateWord was called with an empty term on a WordMap whose three
\* indices hold entries
C21_Witness ==
    /\ assocLast.op = "associateWord" /\ assocLast.term = <<>>
    /\ wordMap.wordIndex # Nil
    /\ wordMap.orgIndex # Nil
    /\ wordMap.nameIndex # Nil

\* C24: an associate call leaves the posting maps that the lookups of the
\* other two indices return as they were, for every term, the term of the
\* call included.
C24_Independent ==
    [][ assocLast'.n = assocLast.n + 1 =>
        \A t \in AssocTerms :
            /\ assocLast'.op # "associateOrg"
                   => getFilesByOrg(wordMap', t) = getFilesByOrg(wordMap, t)
            /\ assocLast'.op # "associateName"
                   => getFilesByName(wordMap', t) = getFilesByName(wordMap, t)
            /\ assocLast'.op # "associateWord"
                   => getFilesByWord(wordMap', t) = getFilesByWord(wordMap, t) ]_vars

\* the term of the last call is a key of all three indices, with a posting
\* map in its own index that differs from those of the other two
C24_Witness ==
    /\ assocLast.op = "associateOrg"
    /\ getFilesByOrg(wordMap, assocLast.term) # EmptyMap
    /\ getFilesByName(wordMap, assocLast.term) # EmptyMap
    /\ getFilesByWord(wordMap, assocLast.term) # EmptyMap
    /\ getFilesByOrg(wordMap, assocLast.term) # getFilesByName(wordMap, assocLast.term)
    /\ getFilesByOrg(wordMap, assocLast.term) # getFilesByWord(wordMap, assocLast.term)

----------------------------------------------------------------------------
(* SpecCtor: one engine is constructed over a folder of documents while    *)
(* each of org.dat, name.dat and word.dat is absent, intact (the save of   *)
(* an empty or of a one-entry index) or truncated.                         *)

IndexFileNames == {"org", "name", "word"}

IntactData == saveMap([d \in {DocPool[1]} |-> 2], <<DocPool[1]>>)

FileVariants ==
    {[file |-> NoFile, bad |-> TRUE],
     [file |-> ofstream, bad |-> FALSE],
     [file |-> [ofstream EXCEPT !.data = IntactData], bad |-> FALSE]}
    \cup {[file |-> [ofstream EXCEPT !.data = SubSeq(IntactData, 1, n)], bad |-> TRUE]
          : n \in 1..(Len(IntactData) - 1)}

CtorCorpora == Folders({<<W_profit, W_loss>>, <<W_Profits>>})

Ctor_Init ==
    /\ AVL_Idle
    /\ IO_Idle
    /\ FN_Idle
    /\ MAIN_Idle
    /\ folder \in CtorCorpora
    /\ \E v \in [IndexFileNames -> FileVariants] :
           /\ datFiles = [org |-> v["org"].file, name |-> v["name"].file, word |-> v["word"].file]
           /\ badFiles = {f \in IndexFileNames : v[f].bad}
    /\ wordMap = WordMap
    /\ calls = <<>>
    /\ loadResult = NoLoad
    /\ reloaded = WordMap
    /\ phase = "start"
    /\ assocLast = NoAssoc

Ctor_Construct ==
    /\ phase = "start"
    /\ \E e \in SearchEngine(folder, datFiles) :
           /\ wordMap' = e.wm
           /\ datFiles' = e.disk
           /\ calls' = e.calls
           /\ loadResult' = [returned |-> IF e.loaded.ok THEN "true" ELSE "false",
                             wm |-> e.loaded.wm]
    /\ phase' = "constructed"
    /\ UNCHANGED <<folder, badFiles, reloaded, assocLast, avlVars, ioVars, fnVars, mainVars>>

Ctor_Next == Ctor_Construct

SpecCtor == Ctor_Init /\ [][Ctor_Next]_vars

\* WordMap::load on the WordMap of a new engine finds three empty trees,
\* reads nothing and returns true, whatever the files hold
Ctor_LoadNeverFails ==
    phase = "constructed" => (loadResult.returned = "true" /\ calls = <<"load">>)

\* C5: when the load of one of the three index files fails, WordMap::load
\* reports failure and none of the three indices holds loaded entries.
C5_AllOrNothing ==
    (phase = "constructed" /\ badFiles # {})
        => (loadResult.returned = "false" /\ loadResult.wm = WordMap)

\* C7: the constructor calls load first; it calls buildFromScratch and then
\* save exactly when an index file was absent or corrupt.
C7_LoadElseBuild ==
    phase = "constructed"
        => calls = (IF badFiles # {} THEN <<"load", "buildFromScratch", "save">>
                    ELSE <<"load">>)

----------------------------------------------------------------------------
(* SpecBuild: buildFromScratch runs on a new engine's WordMap, the WordMap *)
(* is saved, and a second engine is constructed on the saved files.        *)

Build_Init ==
    /\ AVL_Idle
    /\ IO_Idle
    /\ FN_Idle
    /\ MAIN_Idle
    /\ folder \in Corpora
    /\ datFiles = [org |-> NoFile, name |-> NoFile, word |-> NoFile]
    /\ badFiles = IndexFileNames
    /\ wordMap = WordMap
    /\ calls = <<>>
    /\ loadResult = NoLoad
    /\ reloaded = WordMap
    /\ phase = "fresh"
    /\ assocLast = NoAssoc

Build_Run ==
    /\ phase = "fresh"
    /\ wordMap' \in buildFromScratch(wordMap, folder)
    /\ phase' = "built"
    /\ UNCHANGED <<folder, datFiles, badFiles, calls, loadResult, reloaded, assocLast,
                   avlVars, ioVars, fnVars, mainVars>>

Build_Save ==
    /\ phase = "built"
    /\ datFiles' \in WordMap_save(wordMap, datFiles)
    /\ phase' = "saved"
    /\ UNCHANGED <<folder, badFiles, wordMap, calls, loadResult, reloaded, assocLast,
                   avlVars, ioVars, fnVars, mainVars>>

Build_Reload ==
    /\ phase = "saved"
    /\ \E e \in SearchEngine(folder, datFiles) :
           /\ reloaded' = e.wm
           /\ datFiles' = e.disk
           /\ calls' = e.calls
           /\ loadResult' = [returned |-> IF e.loaded.ok THEN "true" ELSE "false",
                             wm |-> e.loaded.wm]
    /\ phase' = "reloaded"
    /\ UNCHANGED <<folder, badFiles, wordMap, assocLast, avlVars, ioVars, fnVars, mainVars>>

Build_Next ==
    \/ Build_Run
    \/ Build_Save
    \/ Build_Reload

SpecBuild == Build_Init /\ [][Build_Next]_vars

\* C8: every query has the same ordered result on the engine that built
\* and saved the index and on the engine that loaded the saved files.
C8_RebuildLoadEquivalence ==
    phase = "reloaded" => \A q \in Queries : search(wordMap, q) = search(reloaded, q)

\* the terms body words normalize to
WordTerms == {processWord(w) : w \in Vocabulary} \ {<<>>}

\* C10: after buildFromScratch the count of (word term t, document d) is
\* the number of occurrences in d's body text of words normalizing to t.
C10_OccurrenceCount ==
    phase \in {"built", "saved", "reloaded"}
        => \A f \in DOMAIN folder, t \in WordTerms :
               Count(wordMap.wordIndex, t, f) = Occurrences(folder[f].text, t)

\* C11: processWord("the") returns the empty string; after a build "the" is
\* no key of the word index, and parse returns it for no query.
C11_StopwordThe ==
    phase = "built" /\ (\E f \in DOMAIN folder : W_the \in ToSet(folder[f].text))
        => /\ processWord(W_the) = <<>>
           /\ W_the \notin KeysOf(wordMap.wordIndex)
           /\ \A q \in Queries : W_the \notin parse(q)

\* the body words of the documents of the folder
BodyWords == UNION {ToSet(folder[f].text) : f \in DOMAIN folder}

\* C13: after buildFromScratch no key of the word index holds an uppercase
\* letter, and the term a body word is indexed under is the term parse gives
\* for its lowercase form.
C13_KeysCaseFolded ==
    phase = "built"
        => /\ \A k \in KeysOf(wordMap.wordIndex) : \A i \in 1..Len(k) : ~IsUpper(k[i])
           /\ \A w \in BodyWords :
                  processWord(w) # <<>> => parse(ToLowerStr(w)) = {processWord(w)}

----------------------------------------------------------------------------
(* SpecSearch: buildFromScratch runs on a new engine's WordMap over a       *)
(* folder of two documents, then search is called with any of the queries. *)

RECURSIVE Rep(_, _)
Rep(w, n) == IF n = 0 THEN <<>> ELSE <<w>> \o Rep(w, n - 1)

\* body texts of at most MaxSearchLen words
SearchTexts ==
    { Rep(W_profit, c[1]) \o Rep(W_the, c[2]) \o Rep(W_loss, c[3])
      : c \in {x \in (0..MaxSearchLen) \X (0..MaxSearchLen) \X (0..MaxSearchLen)
                  : x[1] + x[2] + x[3] <= MaxSearchLen} }

SearchCorpora == Folders(SearchTexts)

Q_profit == W_profit
Q_profitNotLoss == W_profit \o <<" ", "-">> \o W_loss
Q_lossNotProfit == W_loss \o <<" ", "-">> \o W_profit
Q_profitLoss == W_Profits \o <<" ">> \o W_loss
Q_orgProfit == OrgPrefix \o W_Acme \o <<" ">> \o W_profit
Q_person == PersonPrefix \o W_bo
Q_stopwords == W_a \o <<" ">> \o W_And
Q_negated == <<"-">> \o W_loss \o <<" ", "-">> \o W_profit
Q_empty == <<>>
Q_blank == <<" ", " ">>
Q_dash == <<"-">> \o <<" ", "-">> \o W_a
Q_the == W_the

SearchQueries ==
    { Q_profit, Q_profitNotLoss, Q_lossNotProfit, Q_profitLoss, Q_orgProfit, Q_person,
      Q_stopwords, Q_negated, Q_empty, Q_blank, Q_dash, Q_the }

Search_Init ==
    /\ AVL_Idle
    /\ IO_Idle
    /\ FN_Idle
    /\ MAIN_Idle
    /\ folder \in SearchCorpora
    /\ datFiles = [org |-> NoFile, name |-> NoFile, word |-> NoFile]
    /\ badFiles = IndexFileNames
    /\ wordMap = WordMap
    /\ calls = <<>>
    /\ loadResult = NoLoad
    /\ reloaded = WordMap
    /\ phase = "fresh"
    /\ assocLast = NoAssoc

Search_Build ==
    /\ phase = "fresh"
    /\ wordMap' \in buildFromScratch(wordMap, folder)
    /\ phase' = "built"
    /\ UNCHANGED <<folder, datFiles, badFiles, calls, loadResult, reloaded, assocLast,
                   avlVars, ioVars, fnVars, mainVars>>

Search_Query(q) ==
    /\ phase = "built"
    /\ searchCall' = [query |-> q, called |-> TRUE, result |-> search(wordMap, q)]
    /\ UNCHANGED <<textCall, parseCall, engVars, avlVars, ioVars, mainVars>>

Search_Next ==
    \/ Search_Build
    \/ \E q \in SearchQueries : Search_Query(q)

SpecSearch == Search_Init /\ [][Search_Next]_vars

\* the documents of the example: A holds "profit" three times, B holds
\* "profit" once and "loss" once
DocA == DocPool[1]
DocB == DocPool[2]

ExampleFolder ==
    /\ folder[DocA].text = <<W_profit, W_profit, W_profit>>
    /\ folder[DocB].text = <<W_profit, W_loss>>

InResult(d) == \E i \in 1..Len(searchCall.result) : searchCall.result[i] = d

PostCount(t, d) ==
    IF startsWith(t, OrgPrefix) THEN Count(wordMap.orgIndex, SubSeq(t, 5, Len(t)), d)
    ELSE IF startsWith(t, PersonPrefix) THEN Count(wordMap.nameIndex, SubSeq(t, 8, Len(t)), d)
    ELSE Count(wordMap.wordIndex, t, d)

RECURSIVE SumCounts(_, _)
SumCounts(terms, d) ==
    IF terms = {} THEN 0
    ELSE LET t == CHOOSE x \in terms : TRUE
         IN  PostCount(t, d) + SumCounts(terms \ {t}, d)

QueryPositive == {t \in parse(searchCall.query) : t[1] # "-"}
QueryNegated == {t \in parse(searchCall.query) : t[1] = "-"}

Score(d) == SumCounts(QueryPositive, d)

Qualifying ==
    { d \in Docs : /\ \E t \in QueryPositive : PostCount(t, d) > 0
                   /\ \A t \in QueryNegated : Count(wordMap.wordIndex, Tail(t), d) = 0 }

\* Lemma: the result of search lists every qualifying document once,
\* ordered by descending Score (the counts the index stores), documents of
\* equal Score by ascending document-id.
Search_RankedByStoredCount ==
    searchCall.called
        => LET r == searchCall.result
           IN  /\ ToSet(r) = Qualifying
               /\ Len(r) = Cardinality(Qualifying)
               /\ \A i \in 1..(Len(r) - 1) :
                      \/ Score(r[i]) > Score(r[i + 1])
                      \/ Score(r[i]) = Score(r[i + 1]) /\ StrLess(r[i], r[i + 1])

\* the number of elements of list that lowercase to term
RECURSIVE Named(_, _)
Named(list, term) ==
    IF list = <<>> THEN 0
    ELSE (IF ToLowerStr(list[1]) = term THEN 1 ELSE 0) + Named(Tail(list), term)

\* the number of occurrences of a positive term in document d
OccurrencesIn(t, d) ==
    IF startsWith(t, OrgPrefix) THEN Named(folder[d].orgs, SubSeq(t, 5, Len(t)))
    ELSE IF startsWith(t, PersonPrefix) THEN Named(folder[d].persons, SubSeq(t, 8, Len(t)))
    ELSE Occurrences(folder[d].text, t)

RECURSIVE SumOccurrences(_, _)
SumOccurrences(terms, d) ==
    IF terms = {} THEN 0
    ELSE LET t == CHOOSE x \in terms : TRUE
         IN  OccurrencesIn(t, d) + SumOccurrences(terms \ {t}, d)

OccurrenceScore(d) == SumOccurrences(QueryPositive, d)

\* C15: the result of search lists the qualifying documents by descending
\* score, the score of a document being the sum over the positive terms of
\* the term's occurrence count in the document, and documents of equal
\* score by ascending document-id.
C15_Ranking ==
    searchCall.called
        => LET r == searchCall.result
           IN  /\ ToSet(r) = Qualifying
               /\ Len(r) = Cardinality(Qualifying)
               /\ \A i \in 1..(Len(r) - 1) :
                      \/ OccurrenceScore(r[i]) > OccurrenceScore(r[i + 1])
                      \/ /\ OccurrenceScore(r[i]) = OccurrenceScore(r[i + 1])
                         /\ StrLess(r[i], r[i + 1])

QueryTokens == ToSet(tokens(searchCall.query, <<>>))

\* the stopwords of the TextProcessor and the stopword the specification names
DocumentedStopwords == stopwords \cup {W_the}

\* C16: search returns the empty list for a query that has no tokens, only
\* stopwords or only negated terms, on every index.
C16_EmptyResult ==
    searchCall.called
        /\ \/ QueryTokens = {}
           \/ \A tok \in QueryTokens : ToLowerStr(tok) \in DocumentedStopwords
           \/ \A tok \in QueryTokens : tok[1] = "-"
        => searchCall.result = <<>>

\* Lemma: the same for the stopwords of the TextProcessor's own list.
Search_EmptyForListedStopwords ==
    searchCall.called
        /\ \/ QueryTokens = {}
           \/ \A tok \in QueryTokens : isStopword(ToLowerStr(tok))
           \/ \A tok \in QueryTokens : tok[1] = "-"
        => searchCall.result = <<>>

----------------------------------------------------------------------------
(* SpecMain: main runs over a command line; in the ui command the user     *)
(* enters the data directory and then menu choices.  trace lists what main *)
(* did, each event with the state of the engine pointer at that moment.    *)

Prog == <<"s","e">>
Dir == <<"d","o","c","s">>

Argvs ==
    { <<Prog>>, <<Prog, "ui">>, <<Prog, "index">>, <<Prog, "index", Dir>>,
      <<Prog, "query">>, <<Prog, "query", Q_profit>>, <<Prog, "bogus">> }

MainFolder ==
    [d \in Docs |-> [orgs |-> <<>>, persons |-> <<>>,
                     text |-> IF d = DocA THEN <<W_profit>> ELSE <<W_profit, W_loss>>]]

Event(ev, eng) == [ev |-> ev, engine |-> eng]

\* handleSearch calling search without testing the engine pointer
handleSearch_noCheck(eng, query) ==
    IF query = <<>> THEN Event("empty query", eng)
    ELSE Event("search", eng)

\* the event handleSearch ends in, for the line the user enters as query
handleSearch(eng, query) ==
    IF eng = "null" THEN Event("no index", eng)
    ELSE IF query = <<>> THEN Event("empty query", eng)
    ELSE Event("search", eng)

Main_Init ==
    /\ AVL_Idle
    /\ IO_Idle
    /\ FN_Idle
    /\ folder = MainFolder
    /\ datFiles = [org |-> NoFile, name |-> NoFile, word |-> NoFile]
    /\ badFiles = IndexFileNames
    /\ wordMap = WordMap
    /\ calls = <<>>
    /\ loadResult = NoLoad
    /\ reloaded = WordMap
    /\ phase = "main"
    /\ assocLast = NoAssoc
    /\ argv \in Argvs
    /\ pc = "start"
    /\ engine = "null"
    /\ trace = <<>>

\* main, lines 214-227 and the command tests: argc is Len(argv), the command
\* is argv[2]
Main_Args ==
    /\ pc = "start"
    /\ IF Len(argv) # 2
       THEN trace' = Append(trace, Event("usage", engine)) /\ pc' = "return 1"
       ELSE IF argv[2] = "ui" THEN trace' = trace /\ pc' = "ui"
       ELSE IF argv[2] = "index" THEN trace' = trace /\ pc' = "index"
       ELSE IF argv[2] = "query" THEN trace' = trace /\ pc' = "query"
       ELSE trace' = Append(trace, Event("unknown command", engine)) /\ pc' = "return 1"
    /\ UNCHANGED <<argv, engine, fnVars, engVars, avlVars, ioVars>>

Main_UiDir(exists) ==
    /\ pc = "ui"
    /\ IF ~exists
       THEN trace' = Append(trace, Event("no directory", engine)) /\ pc' = "return 1"
       ELSE trace' = Append(trace, Event("menu", engine)) /\ pc' = "menu"
    /\ UNCHANGED <<argv, engine, fnVars, engVars, avlVars, ioVars>>

\* menu choices '1' and '2': the engine is replaced when the constructor
\* returns and kept when it throws
Main_MenuCreate(choice, threw) ==
    /\ pc = "menu"
    /\ Len(trace) < MaxTrace
    /\ IF threw
       THEN /\ trace' = Append(trace, Event("error", engine))
            /\ UNCHANGED <<engine, wordMap, datFiles>>
       ELSE \E e \in SearchEngine(folder, datFiles) :
                /\ engine' = "constructed"
                /\ wordMap' = e.wm
                /\ datFiles' = e.disk
                /\ trace' = Append(trace, Event(IF choice = "1" THEN "created" ELSE "loaded",
                                                "constructed"))
    /\ UNCHANGED <<argv, pc, folder, badFiles, calls, loadResult, reloaded, phase, assocLast,
                   fnVars, avlVars, ioVars>>

Main_MenuSearch(query) ==
    /\ pc = "menu"
    /\ Len(trace) < MaxTrace
    /\ trace' = Append(trace, handleSearch(engine, query))
    /\ UNCHANGED <<argv, pc, engine, fnVars, engVars, avlVars, ioVars>>

Main_MenuExit ==
    /\ pc = "menu"
    /\ trace' = Append(trace, Event("goodbye", engine))
    /\ pc' = "return 0"
    /\ UNCHANGED <<argv, engine, fnVars, engVars, avlVars, ioVars>>

\* an empty line shows the menu again; any other first character is invalid
Main_MenuOther(input) ==
    /\ pc = "menu"
    /\ Len(trace) < MaxTrace
    /\ trace' = IF input = <<>> THEN trace ELSE Append(trace, Event("invalid choice", engine))
    /\ UNCHANGED <<argv, pc, engine, fnVars, engVars, avlVars, ioVars>>

Main_Index(exists, threw) ==
    /\ pc = "index"
    /\ IF Len(argv) # 3
       THEN /\ trace' = Append(trace, Event("missing directory argument", engine))
            /\ pc' = "return 1"
            /\ UNCHANGED <<engine, wordMap, datFiles>>
       ELSE IF ~exists
       THEN /\ trace' = Append(trace, Event("no directory", engine))
            /\ pc' = "return 1"
            /\ UNCHANGED <<engine, wordMap, datFiles>>
       ELSE IF threw
       THEN /\ trace' = Append(trace, Event("error", engine))
            /\ pc' = "return 1"
            /\ UNCHANGED <<engine, wordMap, datFiles>>
       ELSE \E e \in SearchEngine(folder, datFiles) :
                /\ engine' = "constructed"
                /\ wordMap' = e.wm
                /\ datFiles' = e.disk
                /\ trace' = Append(trace, Event("created", "constructed"))
                /\ pc' = "return 0"
    /\ UNCHANGED <<argv, folder, badFiles, calls, loadResult, reloaded, phase, assocLast,
                   fnVars, avlVars, ioVars>>

Main_Query(threw) ==
    /\ pc = "query"
    /\ IF Len(argv) # 3
       THEN /\ trace' = Append(trace, Event("missing query argument", engine))
            /\ pc' = "return 1"
            /\ UNCHANGED <<engine, wordMap, datFiles>>
       ELSE IF threw
       THEN /\ trace' = Append(trace, Event("error", engine))
            /\ pc' = "return 1"
            /\ UNCHANGED <<engine, wordMap, datFiles>>
       ELSE \E e \in SearchEngine(folder, datFiles) :
                /\ engine' = "constructed"
                /\ wordMap' = e.wm
                /\ datFiles' = e.disk
                /\ trace' = Append(trace, Event("search", "constructed"))
                /\ pc' = "return 0"
    /\ UNCHANGED <<argv, folder, badFiles, calls, loadResult, reloaded, phase, assocLast,
                   fnVars, avlVars, ioVars>>

MenuQueries == {<<>>, Q_profit}

Main_Next ==
    \/ Main_Args
    \/ \E exists \in BOOLEAN : Main_UiDir(exists)
    \/ \E choice \in {"1", "2"}, threw \in BOOLEAN : Main_MenuCreate(choice, threw)
    \/ \E query \in MenuQueries : Main_MenuSearch(query)
    \/ Main_MenuExit
    \/ \E input \in {<<>>, <<"x">>} : Main_MenuOther(input)
    \/ \E exists \in BOOLEAN, threw \in BOOLEAN : Main_Index(exists, threw)
    \/ \E threw \in BOOLEAN : Main_Query(threw)

SpecMain == Main_Init /\ [][Main_Next]_vars

\* C17: every call of search that main made was on a constructed engine.
C17_SearchAfterConstruction ==
    \A i \in 1..Len(trace) : trace[i].ev = "search" => trace[i].engine = "constructed"

C17_Witness ==
    /\ Len(trace) >= 3
    /\ trace[2].ev = "no index"
    /\ \E i \in 1..Len(trace) : trace[i].ev = "search" /\ trace[i].engine = "constructed"

\* the invocations the usage text documents
Documented == {<<Prog, "ui">>, <<Prog, "index", Dir>>, <<Prog, "query", Q_profit>>}

Did(evs) == \E i \in 1..Len(trace) : trace[i].ev \in evs

\* C18: a documented invocation is never answered with the usage text or a
\* missing-argument error, and when main has returned "index <directory>"
\* has reached the index creation, "query <text>" the search and "ui" the
\* menu (or the test of the directory the user entered).
C18_CommandsAccepted ==
    argv \in Documented
        => /\ ~Did({"usage", "missing directory argument", "missing query argument"})
           /\ pc \in {"return 0", "return 1"}
                  => /\ argv[2] = "index" => Did({"created", "error", "no directory"})
                     /\ argv[2] = "query" => Did({"search", "error"})
                     /\ argv[2] = "ui" => Did({"menu", "no directory"})

----------------------------------------------------------------------------
(* SpecParse: parse is called on a query of at most MaxTokens tokens, and  *)
(* on the same query followed by repetitions of one of its tokens in some  *)
(* letter case.                                                            *)

ParseTokens ==
    { W_profit, W_Profits, W_a, W_US, <<"-">>, <<"-">> \o W_a, <<"-">> \o W_loss,
      <<"-">> \o W_Profits, OrgPrefix \o W_Acme }

toupper(c) ==
    IF IsLower(c) THEN Upper[CHOOSE i \in 1..Len(Lower) : Lower[i] = c] ELSE c

ToUpperStr(str) == [i \in 1..Len(str) |-> toupper(str[i])]

\* a token in the letter cases it may be repeated in
Variants(tok) == {tok, ToLowerStr(tok), ToUpperStr(tok)}

RECURSIVE Join(_)
Join(toks) ==
    IF toks = <<>> THEN <<>>
    ELSE IF Len(toks) = 1 THEN toks[1]
    ELSE toks[1] \o <<" ">> \o Join(Tail(toks))

ParseInputs ==
    UNION { { [NoParse EXCEPT !.tokens = ts, !.extra = Rep(v, n)]
              : v \in UNION {Variants(ts[i]) : i \in 1..Len(ts)}, n \in 1..MaxRepeat }
            \cup {[NoParse EXCEPT !.tokens = ts]}
            : ts \in UNION {[1..k -> ParseTokens] : k \in 0..MaxTokens} }

Parse_Init ==
    /\ AVL_Idle
    /\ IO_Idle
    /\ ENG_Idle
    /\ MAIN_Idle
    /\ textCall = NoText
    /\ parseCall \in ParseInputs
    /\ searchCall = NoSearch

Parse_Run ==
    /\ parseCall.runs = 0
    /\ parseCall' = [parseCall EXCEPT !.runs = 1,
                                      !.terms = parse(Join(parseCall.tokens))]
    /\ UNCHANGED <<textCall, searchCall, avlVars, ioVars, engVars, mainVars>>

Parse_RunRepeated ==
    /\ parseCall.runs = 1
    /\ parseCall' = [parseCall EXCEPT
                        !.runs = 2,
                        !.more = parse(Join(parseCall.tokens \o parseCall.extra))]
    /\ UNCHANGED <<textCall, searchCall, avlVars, ioVars, engVars, mainVars>>

Parse_Next ==
    \/ Parse_Run
    \/ Parse_RunRepeated

SpecParse == Parse_Init /\ [][Parse_Next]_vars

\* what parse is to store for a token that starts with "-"
NegatedForm(tok) == <<"-">> \o processWord(ToLowerStr(Tail(tok)))

DashTokens == {tok \in ToSet(parseCall.tokens) : tok[1] = "-"}

\* C19: for a token "-x" parse stores "-" followed by processWord(x) when
\* processWord(x) is not empty, and nothing otherwise (a bare "-", "-" and a
\* stopword); it stores no other term that starts with "-".
C19_NegatedTokens ==
    parseCall.runs >= 1
        => /\ \A tok \in DashTokens :
                  NegatedForm(tok) \in parseCall.terms <=> NegatedForm(tok) # <<"-">>
           /\ \A t \in parseCall.terms :
                  t[1] = "-" => \E tok \in DashTokens : t = NegatedForm(tok)

C19_Witness ==
    /\ parseCall.runs >= 1
    /\ parseCall.tokens = << <<"-">> \o W_a, <<"-">> \o W_Profits >>
    /\ parseCall.terms = { <<"-">> \o W_profit }

\* C20: parse of a query followed by repetitions of one of its tokens, in
\* any letter case, returns the term set it returns for the query alone,
\* and no term set holds the empty string.
C20_TermSet ==
    /\ parseCall.runs >= 1 => <<>> \notin parseCall.terms
    /\ parseCall.runs = 2 => parseCall.more = parseCall.terms /\ <<>> \notin parseCall.more

C20_Witness ==
    /\ parseCall.runs = 2
    /\ parseCall.tokens = <<W_US, OrgPrefix \o W_Acme>>
    /\ parseCall.extra = Rep(ToLowerStr(W_US), MaxRepeat)
    /\ parseCall.more = parseCall.terms
    /\ Cardinality(parseCall.terms) = 2

----------------------------------------------------------------------------
(* SpecText: one TextProcessor is given one lowercase word; stem is applied *)
(* to it and then to its own result, or processWord is applied to it.       *)

W_running == <<"r","u","n","n","i","n","g">>
W_run == <<"r","u","n">>
W_and == <<"a","n","d">>

Roots ==
    { <<"r","u","n","n">>, <<"f","o","c","u","s">>, <<"h","o","p">>,
      <<"p","r","o","c">>, <<"p","o","n">>, <<"p","l","a">>, <<"a">> }

Suffixes ==
    { <<"s">>, <<"e","s">>, <<"s","s","e","s">>, <<"i","e","s">>, <<"e","e","d">>,
      <<"e","d">>, <<"i","n","g">>, <<"y">> }

\* w followed by at most n suffixes
RECURSIVE Suffixed(_, _)
Suffixed(w, n) ==
    IF n = 0 THEN {w}
    ELSE {w} \cup UNION {Suffixed(w \o x, n - 1) : x \in Suffixes}

TextWords == UNION {Suffixed(r, MaxSuffixes) : r \in Roots} \cup {W_and, W_the}

Text_Init ==
    /\ AVL_Idle
    /\ IO_Idle
    /\ ENG_Idle
    /\ MAIN_Idle
    /\ textCall \in {[NoText EXCEPT !.word = w] : w \in TextWords}
    /\ parseCall = NoParse
    /\ searchCall = NoSearch

Text_Stem ==
    /\ textCall.op = "none"
    /\ textCall' = [textCall EXCEPT !.op = "stem", !.out = stem(textCall.word)]
    /\ UNCHANGED <<parseCall, searchCall, avlVars, ioVars, engVars, mainVars>>

Text_StemAgain ==
    /\ textCall.op = "stem"
    /\ textCall' = [textCall EXCEPT !.op = "stem twice", !.again = stem(textCall.out)]
    /\ UNCHANGED <<parseCall, searchCall, avlVars, ioVars, engVars, mainVars>>

Text_ProcessWord ==
    /\ textCall.op = "none"
    /\ textCall' = [textCall EXCEPT !.op = "processWord", !.out = processWord(textCall.word)]
    /\ UNCHANGED <<parseCall, searchCall, avlVars, ioVars, engVars, mainVars>>

Text_Next ==
    \/ Text_Stem
    \/ Text_StemAgain
    \/ Text_ProcessWord

SpecText == Text_Init /\ [][Text_Next]_vars

endsInSuffix(str) ==
    \/ endsWith(str, <<"s">>)
    \/ endsWith(str, <<"e","d">>)
    \/ endsWith(str, <<"i","n","g">>)
    \/ endsWith(str, <<"y">>)

----------------------------------------------------------------------------
(* SpecIO: an index is populated and saved; the file may then be truncated *)
(* or removed; loadFromFile is called on a fresh index or on the index     *)
(* that was saved.                                                         *)

IOValues ==
    {EmptyMap, [d \in {DocPool[1]} |-> 1],
     [d \in {DocPool[1], DocPool[2]} |-> IF d = DocPool[1] THEN 2 ELSE 1]}

IO_Init ==
    /\ AVL_Idle
    /\ IO_Idle
    /\ FN_Idle
    /\ MAIN_Idle
    /\ ENG_Idle

IO_Insert(k, v) ==
    /\ ioFileState = "absent" /\ ioOutcome.how = "none"
    /\ Size(insert(ioTree, k, v)) <= MaxIOEntries
    /\ ioTree' = insert(ioTree, k, v)
    /\ UNCHANGED <<ioFile, ioFileState, ioTarget, ioOutcome, avlVars, engVars, fnVars, mainVars>>

IO_Save ==
    /\ ioFileState = "absent" /\ ioOutcome.how = "none"
    /\ \E order \in SaveOrders(ioTree) : ioFile' = saveToFile(ioTree, order)
    /\ ioFileState' = "saved"
    /\ UNCHANGED <<ioTree, ioTarget, ioOutcome, avlVars, engVars, fnVars, mainVars>>

IO_Truncate ==
    /\ ioFileState = "saved" /\ ioOutcome.how = "none"
    /\ \E n \in 0..(Len(ioFile.data) - 1) :
           ioFile' = [ioFile EXCEPT !.data = SubSeq(ioFile.data, 1, n)]
    /\ ioFileState' = "truncated"
    /\ UNCHANGED <<ioTree, ioTarget, ioOutcome, avlVars, engVars, fnVars, mainVars>>

IO_Remove ==
    /\ ioFileState = "saved" /\ ioOutcome.how = "none"
    /\ ioFile' = NoFile
    /\ ioFileState' = "removed"
    /\ UNCHANGED <<ioTree, ioTarget, ioOutcome, avlVars, engVars, fnVars, mainVars>>

IO_Load(fresh) ==
    /\ ioOutcome.how = "none"
    /\ \E o \in loadFromFile(IF fresh THEN Nil ELSE ioTree, ioFile) :
           /\ ioTarget' = o.root
           /\ ioOutcome' = [how |-> IF o.threw THEN "threw" ELSE "returned", fresh |-> fresh]
    /\ UNCHANGED <<ioTree, ioFile, ioFileState, avlVars, engVars, fnVars, mainVars>>

IO_Next ==
    \/ \E k \in Keys, v \in IOValues : IO_Insert(k, v)
    \/ IO_Save
    \/ IO_Truncate
    \/ IO_Remove
    \/ \E fresh \in BOOLEAN : IO_Load(fresh)

SpecIO == IO_Init /\ [][IO_Next]_vars

\* C3: save followed by load into a fresh index gives, for every key, the
\* find result of the saved index, posting map included.
C3_RoundTrip ==
    (ioOutcome.how # "none" /\ ioOutcome.fresh /\ ioFileState = "saved")
        => \A k \in Keys : Lookup(ioTarget, k) = Lookup(ioTree, k)

\* C4: load of a missing, malformed or truncated file ends by signalling an
\* error, never by a normal return.
C4_LoadFails ==
    (ioOutcome.how # "none" /\ ioFileState \in {"absent", "truncated", "removed"})
        => ioOutcome.how = "threw"

----------------------------------------------------------------------------
(* SpecAVL: any sequence of public insert calls on one AVLTree *)


AVL_Init ==
    /\ AVL_Idle
    /\ IO_Idle
    /\ FN_Idle
    /\ MAIN_Idle
    /\ ENG_Idle

AVL_Insert(k, v) ==
    /\ avlTree' = insert(avlTree, k, v)
    /\ avlModel' = [x \in DOMAIN avlModel \cup {k} |-> IF x = k THEN v ELSE avlModel[x]]
    /\ avlLast' = [key |-> k, existed |-> k \in DOMAIN avlModel, called |-> TRUE]
    /\ UNCHANGED <<ioVars, engVars, fnVars, mainVars>>

AVL_Next == \E k \in Keys, v \in AVLValues : AVL_Insert(k, v)

SpecAVL == AVL_Init /\ [][AVL_Next]_vars

\* C1: after any sequence of inserts every node's left and right subtree
\* heights differ by at most one.
C1_Balanced == IsBalanced(avlTree)

\* a new key enters as a leaf: in a tree of five nodes it has a child only
\* when a double rotation lifted it
C1_Witness ==
    /\ avlLast.called /\ ~avlLast.existed
    /\ Size(avlTree) >= 5
    /\ avlLast.key \in InnerKeys(avlTree)

\* C2: find returns the value of the most recent insert of every inserted
\* key and reports absence (a null node) for every key never inserted.
C2_Lookup ==
    \A k \in Keys :
        IF k \in DOMAIN avlModel
        THEN find(avlTree, k) # Nil /\ find(avlTree, k).value = avlModel[k]
        ELSE find(avlTree, k) = Nil

\* a key was overwritten with a different value in a tree of four nodes,
\* and another key is still absent
C2_Witness ==
    /\ avlLast.called /\ avlLast.existed
    /\ Size(avlTree) >= 4
    /\ avlModel[avlLast.key] # EmptyMap
    /\ \E k \in Keys : k \notin DOMAIN avlModel

\* C22: after any sequence of inserts the tree is a binary search tree over
\* the order of std::string, and it has one node for every key inserted,
\* however often the key was inserted.
C22_SearchTree ==
    /\ IsSearchTree(avlTree)
    /\ KeysOf(avlTree) = DOMAIN avlModel
    /\ Size(avlTree) = Cardinality(DOMAIN avlModel)

\* a key that is in the tree was inserted again: the tree has five nodes,
\* the key is not at the root, and a rotation has moved the first key from
\* the root
C22_Witness ==
    /\ avlLast.called /\ avlLast.existed
    /\ Size(avlTree) = 5
    /\ avlTree.key # avlLast.key
    /\ avlTree.left # Nil /\ avlTree.right # Nil
    /\ avlTree.left.left # Nil \/ avlTree.left.right # Nil

\* C23: after every insert the height field of each node is 1 + the larger
\* of the true heights of its two subtrees, an empty subtree having height 0.
C23_Heights == HeightsExact(avlTree)

\* the last insert added a key that a rotation lifted above another node,
\* in a tree of true height 3
C23_Witness ==
    /\ avlLast.called /\ ~avlLast.existed
    /\ TrueHeight(avlTree) = 3
    /\ avlTree.height = 3
    /\ avlLast.key \in InnerKeys(avlTree)
    /\ avlTree.right # Nil /\ avlTree.right.height = 2

====
